---- MODULE Spec2Model ----
(***************************************************************************)
(* Compression middleware (package compressionstdlib): a selector          *)
(* {algorithm, level} built by New, whose Writer and Reader wrap a byte    *)
(* sink or source with the gzip or zlib codec of the Go standard library.  *)
(*                                                                         *)
(* The selector, the options, the dispatch and the adapters are modelled   *)
(* from compression.go.  The codecs (compress/gzip, compress/zlib and the  *)
(* compress/flate engine under both) are outside the repository; they are  *)
(* modelled by their behaviour at the granularity of wire tokens: a format *)
(* header, deflate blocks, a trailer.  A token stands for the bytes of     *)
(* that part of the stream.                                                *)
(***************************************************************************)
EXTENDS Integers, Sequences, FiniteSets, TLC

VARIABLES
    m,        \* the selector: [made, algorithm, level]
    w,        \* the write-side adapter and the codec writer it embeds
    sink,     \* what the underlying sink has received, as wire tokens
    r,        \* the read-side adapter, its codec reader and its source
    written,  \* history: the bytes accepted by Write calls, concatenated
    nwrites,  \* history: the number of Write calls, saturating at 2
    closeCalled, \* history: the caller has called Close on the write adapter
    call,     \* history: the last call, its arguments and what it returned
    fault     \* the panic message once a call has panicked, else ""

vars == <<m, w, sink, r, written, nwrites, closeCalled, call, fault>>

(***************************************************************************)
(* Program constants and the bounds of the model.                          *)
(***************************************************************************)
Gzip == 0
Zlib == 1
DefaultLevel == 6
MinLevel == 1
MaxLevel == 9

MaxOpts == 2      \* options handed to New
MaxData == 3      \* bytes written through one adapter
MaxChunk == 2     \* bytes in one Write call
MaxRead == 2      \* bytes asked for in one Read call
BlockSize == 2    \* bytes the compressor holds back before it emits a block

Bytes == {0, 1}
Algorithms == {Gzip, Zlib, -1, 2, 999}
LevelArgs == (-1 .. 10) \cup {15}
CodecLevels == -2 .. 9      \* what the codecs' writer factories accept

Min(a, b) == IF a < b THEN a ELSE b

SeqsUpTo(S, n) == UNION {[1 .. k -> S] : k \in 0 .. n}

IsPrefix(s, t) == Len(s) <= Len(t) /\ SubSeq(t, 1, Len(s)) = s

(***************************************************************************)
(* Error values.  kind is the error as the codec or the sink/source made   *)
(* it; wrap is the message errors.Wrap put in front of it ("" for none).   *)
(***************************************************************************)
NoErr == [kind |-> "nil", wrap |-> ""]
Err(k) == [kind |-> k, wrap |-> ""]
Wrap(e, msg) == [e EXCEPT !.wrap = msg]
EOF == Err("EOF")
ErrUnexpectedEOF == Err("unexpected EOF")
ErrIO == Err("io failure")

AlgName(alg) == IF alg = Gzip THEN "gzip" ELSE IF alg = Zlib THEN "zlib" ELSE "?"

(***************************************************************************)
(* Selector: WithLevel, New.                                               *)
(***************************************************************************)
\* Variant: the range check without its lower bound.
WithLevelNoLowerBound(level, mm) ==
    IF level <= MaxLevel THEN [mm EXCEPT !.level = level] ELSE mm

WithLevel(level, mm) ==
    IF level >= MinLevel /\ level <= MaxLevel THEN [mm EXCEPT !.level = level] ELSE mm

RECURSIVE ApplyOpts(_, _)
ApplyOpts(mm, opts) ==
    IF opts = <<>> THEN mm
    ELSE ApplyOpts(WithLevel(Head(opts), mm), Tail(opts))

\* Variant: the options applied last to first.
RECURSIVE ApplyOptsFirstWins(_, _)
ApplyOptsFirstWins(mm, opts) ==
    IF opts = <<>> THEN mm
    ELSE WithLevel(Head(opts), ApplyOptsFirstWins(mm, Tail(opts)))

NewFirstWins(algorithm, opts) ==
    ApplyOptsFirstWins([made |-> TRUE, algorithm |-> algorithm, level |-> DefaultLevel], opts)

New(algorithm, opts) ==
    ApplyOpts([made |-> TRUE, algorithm |-> algorithm, level |-> DefaultLevel], opts)

(***************************************************************************)
(* Wire tokens of the two formats.                                         *)
(***************************************************************************)
\* gzip: the XFL header byte; zlib: the FLEVEL bits of the header.
HeaderFlags(alg, level) ==
    IF alg = Gzip
    THEN (IF level = 9 THEN 2 ELSE IF level = 1 THEN 4 ELSE 0)
    ELSE (IF level \in {-2, 0, 1} THEN 0
          ELSE IF level \in 2 .. 5 THEN 1
          ELSE IF level \in {-1, 6} THEN 2 ELSE 3)

HdrTok(alg, level) == <<"hdr", alg, HeaderFlags(alg, level)>>
TrlTok(alg, digest, size) == <<"trl", digest, IF alg = Gzip THEN size ELSE 0>>
BadTok == <<"bad">>     \* bytes that are no part of any valid stream
PartTok == <<"part">>   \* the first bytes of a token, cut off

\* The deflate payload of a block: runs <<byte, count>> (a match at distance 1).
RECURSIVE Deflate(_)
Deflate(data) ==
    IF data = <<>> THEN <<>>
    ELSE LET rest == Deflate(Tail(data)) IN
         IF rest # <<>> /\ rest[1][1] = Head(data)
         THEN <<<<Head(data), rest[1][2] + 1>>>> \o Tail(rest)
         ELSE <<<<Head(data), 1>>>> \o rest

RECURSIVE Inflate(_)
Inflate(runs) ==
    IF runs = <<>> THEN <<>>
    ELSE [i \in 1 .. runs[1][2] |-> runs[1][1]] \o Inflate(Tail(runs))

BlkTok(data, final) == <<"blk", final, Deflate(data)>>

(***************************************************************************)
(* The underlying sink.  A codec call makes its sink writes in order and   *)
(* stops at the first that fails; failAt is the index of the write that    *)
(* the sink refuses (0: none).                                             *)
(***************************************************************************)
SinkWrites(snk, toks, failAt) ==
    IF failAt = 0 \/ failAt > Len(toks)
    THEN [sink |-> snk \o toks, err |-> NoErr]
    ELSE [sink |-> snk \o SubSeq(toks, 1, failAt - 1), err |-> ErrIO]

(***************************************************************************)
(* Codec writers: gzip.NewWriterLevel / zlib.NewWriterLevel, and the       *)
(* Write and Close of the writer they return.                              *)
(***************************************************************************)
NoWriter ==
    [kind |-> "none", level |-> 0, wroteHeader |-> FALSE, closed |-> FALSE,
     err |-> NoErr, buf |-> <<>>, digest |-> <<>>, size |-> 0]

\* The factory checks the level and writes nothing: the header is written lazily.
NewWriterLevel(alg, level) ==
    IF level \in CodecLevels
    THEN [err |-> NoErr,
          w |-> [NoWriter EXCEPT !.kind = AlgName(alg), !.level = level]]
    ELSE [err |-> Err(AlgName(alg) \o ": invalid compression level"), w |-> NoWriter]

AlgOf(ww) == IF ww.kind = "gzip" THEN Gzip ELSE Zlib

\* The blocks the compressor emits once buf holds BlockSize bytes or more.
RECURSIVE FullBlocks(_)
FullBlocks(buf) ==
    IF Len(buf) < BlockSize THEN <<>>
    ELSE <<BlkTok(SubSeq(buf, 1, BlockSize), FALSE)>>
         \o FullBlocks(SubSeq(buf, BlockSize + 1, Len(buf)))

Held(buf) == SubSeq(buf, Len(buf) - (Len(buf) % BlockSize) + 1, Len(buf))

\* Writer.Write of compress/gzip and compress/zlib.  size counts the bytes
\* written (gzip's ISIZE); it stays far below 2^32 here.
CodecWrite(ww, snk, p, failAt) ==
    IF ww.err # NoErr THEN [w |-> ww, sink |-> snk, n |-> 0, err |-> ww.err]
    ELSE
    LET hdr == IF ww.wroteHeader THEN <<>> ELSE <<HdrTok(AlgOf(ww), ww.level)>>
        all == ww.buf \o p
        toks == hdr \o FullBlocks(all)
        res == SinkWrites(snk, toks, failAt)
        w1 == [ww EXCEPT !.wroteHeader = TRUE]
    IN  IF res.err # NoErr
        THEN [w |-> [w1 EXCEPT !.err = res.err], sink |-> res.sink, n |-> 0, err |-> res.err]
        ELSE [w |-> [w1 EXCEPT !.buf = Held(all),
                               !.digest = ww.digest \o p,
                               !.size = ww.size + Len(p)],
              sink |-> res.sink, n |-> Len(p), err |-> NoErr]

\* Writer.Close: the header if none was written, the held bytes as the final
\* block, the trailer (checksum, and for gzip the size).
CodecClose(ww, snk, failAt) ==
    IF ww.err # NoErr THEN [w |-> ww, sink |-> snk, err |-> ww.err]
    ELSE
    LET hdr == IF ww.wroteHeader THEN <<>> ELSE <<HdrTok(AlgOf(ww), ww.level)>>
        toks == hdr \o <<BlkTok(ww.buf, TRUE), TrlTok(AlgOf(ww), ww.digest, ww.size)>>
        res == SinkWrites(snk, toks, failAt)
    IN  [w |-> [ww EXCEPT !.wroteHeader = TRUE, !.closed = TRUE, !.buf = <<>>,
                          !.err = res.err],
         sink |-> res.sink, err |-> res.err]

\* A Flush of the codec writer: the held bytes leave as a block at once.
CodecFlush(ww, snk) ==
    IF ww.err # NoErr \/ ww.buf = <<>> THEN [w |-> ww, sink |-> snk]
    ELSE [w |-> [ww EXCEPT !.buf = <<>>], sink |-> snk \o <<BlkTok(ww.buf, FALSE)>>]

(***************************************************************************)
(* Middleware.Writer: the dispatch on the algorithm.                       *)
(***************************************************************************)
\* Variant: a default branch that falls back to gzip.
WriterFallsBack(mm, snk) ==
    LET c == NewWriterLevel(IF mm.algorithm = Zlib THEN Zlib ELSE Gzip, mm.level) IN
    [fault |-> "", w |-> c.w, sink |-> snk]

\* Variant: the codec handed level + 1.
WriterLevelOffByOne(mm, snk) ==
    IF mm.algorithm \in {Gzip, Zlib}
    THEN LET c == NewWriterLevel(mm.algorithm, mm.level + 1) IN
         IF c.err # NoErr
         THEN [fault |-> "failed to create " \o AlgName(mm.algorithm) \o " writer: " \o c.err.kind,
               w |-> NoWriter, sink |-> snk]
         ELSE [fault |-> "", w |-> [c.w EXCEPT !.level = mm.level], sink |-> snk]
    ELSE [fault |-> "unsupported compression algorithm", w |-> NoWriter, sink |-> snk]

Writer(mm, snk) ==
    IF mm.algorithm = Gzip
    THEN LET c == NewWriterLevel(Gzip, mm.level) IN
         IF c.err # NoErr
         THEN [fault |-> "failed to create gzip writer: " \o c.err.kind,
               w |-> NoWriter, sink |-> snk]
         ELSE [fault |-> "", w |-> c.w, sink |-> snk]
    ELSE IF mm.algorithm = Zlib
    THEN LET c == NewWriterLevel(Zlib, mm.level) IN
         IF c.err # NoErr
         THEN [fault |-> "failed to create zlib writer: " \o c.err.kind,
               w |-> NoWriter, sink |-> snk]
         ELSE [fault |-> "", w |-> c.w, sink |-> snk]
    ELSE [fault |-> "unsupported compression algorithm", w |-> NoWriter, sink |-> snk]

(***************************************************************************)
(* The write-side adapters.                                                *)
(***************************************************************************)
\* Variant: a Write that flushes the codec after each call.
gzipWriteFlushing(ww, snk, p, failAt) ==
    LET c == CodecWrite(ww, snk, p, failAt)
        f == CodecFlush(c.w, c.sink)
    IN  [c EXCEPT !.w = f.w, !.sink = f.sink]

gzipWriteCloserWrite(ww, snk, p, failAt) == CodecWrite(ww, snk, p, failAt)

\* Variant: a Close that returns the codec's error as it is.
gzipCloseUnwrapped(ww, snk, failAt) == CodecClose(ww, snk, failAt)

gzipWriteCloserClose(ww, snk, failAt) ==
    LET c == CodecClose(ww, snk, failAt) IN
    IF c.err # NoErr
    THEN [c EXCEPT !.err = Wrap(c.err, "failed to close gzip writer")]
    ELSE c

\* Variant: a Write that closes the codec after each call.
zlibWriteFinalizing(ww, snk, p, failAt) ==
    LET c == CodecWrite(ww, snk, p, failAt)
        f == CodecClose(c.w, c.sink, 0)
    IN  [c EXCEPT !.w = f.w, !.sink = f.sink]

zlibWriteCloserWrite(ww, snk, p, failAt) == CodecWrite(ww, snk, p, failAt)

\* Variant: a Close that never reaches the codec.
zlibCloseNoTrailer(ww, snk, failAt) ==
    [w |-> ww, sink |-> snk, err |-> NoErr]

zlibWriteCloserClose(ww, snk, failAt) ==
    LET c == CodecClose(ww, snk, failAt) IN
    IF c.err # NoErr
    THEN [c EXCEPT !.err = Wrap(c.err, "failed to close zlib writer")]
    ELSE c

\* The call through the io.Writer / io.Closer the caller holds.
AdapterWrite(ww, snk, p, failAt) ==
    IF ww.kind = "gzip" THEN gzipWriteCloserWrite(ww, snk, p, failAt)
    ELSE zlibWriteCloserWrite(ww, snk, p, failAt)

AdapterClose(ww, snk, failAt) ==
    IF ww.kind = "gzip" THEN gzipWriteCloserClose(ww, snk, failAt)
    ELSE zlibWriteCloserClose(ww, snk, failAt)

(***************************************************************************)
(* Codec readers: gzip.NewReader / zlib.NewReader read and check the       *)
(* format header when they are called; Read inflates blocks and, at the    *)
(* end of the deflate stream, reads and checks the trailer.                *)
(***************************************************************************)
\* src: the source's content; byteReader: whether the source is an
\* io.ByteReader, which the codec reads byte by byte, or not, in which case the
\* codec reads it through a bufio.Reader of 4096 bytes; fetched: how much of
\* src has been read from the source; pos: how much of it the codec has used.
NoReader ==
    [kind |-> "none", src |-> <<>>, byteReader |-> TRUE, fetched |-> 0, pos |-> 0,
     toRead |-> <<>>, ferr |-> NoErr, err |-> NoErr, digest |-> <<>>, size |-> 0,
     out |-> <<>>]

ErrHeader(alg) == Err(AlgName(alg) \o ": invalid header")
ErrChecksum(alg) == Err(AlgName(alg) \o ": invalid checksum")
ErrCorrupt == Err("flate: corrupt input")

IsHeader(tok, alg) == Len(tok) = 3 /\ tok[1] = "hdr" /\ tok[2] = alg

\* srcFail: the source's next read returns an error of its own.  The header
\* is read here; a buffered source hands over, with it, all of a stream
\* shorter than the buffer.
NewReader(alg, src, byteReader, srcFail) ==
    LET herr == IF srcFail THEN ErrIO
                ELSE IF src = <<>> THEN (IF alg = Gzip THEN EOF ELSE ErrUnexpectedEOF)
                ELSE IF src[1] = PartTok THEN ErrUnexpectedEOF
                ELSE IF ~IsHeader(src[1], alg) THEN ErrHeader(alg)
                ELSE NoErr
    IN  IF herr # NoErr THEN [err |-> herr, r |-> NoReader]
        ELSE [err |-> NoErr,
              r |-> [NoReader EXCEPT !.kind = AlgName(alg), !.src = src,
                                     !.byteReader = byteReader,
                                     !.fetched = IF byteReader THEN 1 ELSE Len(src),
                                     !.pos = 1]]

\* The inflater's step: blocks are decoded into its window up to the final
\* block or the first error, and only then handed out.
RECURSIVE InflateFrom(_, _, _)
InflateFrom(src, pos, acc) ==
    IF pos >= Len(src) THEN [pos |-> pos, data |-> acc, err |-> ErrUnexpectedEOF]
    ELSE LET tok == src[pos + 1] IN
         IF tok = PartTok THEN [pos |-> pos + 1, data |-> acc, err |-> ErrUnexpectedEOF]
         ELSE IF tok[1] # "blk" THEN [pos |-> pos + 1, data |-> acc, err |-> ErrCorrupt]
         ELSE IF tok[2] THEN [pos |-> pos + 1, data |-> acc \o Inflate(tok[3]), err |-> EOF]
         ELSE InflateFrom(src, pos + 1, acc \o Inflate(tok[3]))

\* What follows the deflate stream: the trailer, and for gzip (multistream)
\* a look for the header of a further member.  The source is read, and may
\* fail, for every byte of an io.ByteReader, and past the end of what a
\* buffered source has handed over.
ReadTrailer(alg, src, pos, digest, size, byteReader, srcFail) ==
    IF srcFail /\ byteReader THEN [pos |-> pos, err |-> ErrIO]
    ELSE IF pos >= Len(src) \/ src[pos + 1] = PartTok
    THEN [pos |-> Min(pos + 1, Len(src)), err |-> IF srcFail THEN ErrIO ELSE ErrUnexpectedEOF]
    ELSE IF src[pos + 1] # TrlTok(alg, digest, size)
    THEN [pos |-> pos + 1, err |-> ErrChecksum(alg)]
    ELSE IF alg = Zlib THEN [pos |-> pos + 1, err |-> EOF]
    ELSE IF pos + 1 >= Len(src) THEN [pos |-> pos + 1, err |-> IF srcFail THEN ErrIO ELSE EOF]
    ELSE IF src[pos + 2] = PartTok
    THEN [pos |-> pos + 2, err |-> IF srcFail THEN ErrIO ELSE ErrUnexpectedEOF]
    ELSE [pos |-> pos + 2, err |-> ErrHeader(alg)]

\* Reader.Read of compress/gzip and compress/zlib, for a buffer of k bytes.
CodecRead(rr, k, srcFail) ==
    IF rr.err # NoErr THEN [r |-> rr, n |-> 0, p |-> <<>>, err |-> rr.err]
    ELSE
    LET stepped == rr.toRead = <<>> /\ rr.ferr = NoErr
        inf == InflateFrom(rr.src, rr.pos, <<>>)
        st == IF ~stepped THEN [pos |-> rr.pos, data |-> rr.toRead, err |-> rr.ferr]
              ELSE IF srcFail /\ rr.byteReader
              THEN [pos |-> rr.pos, data |-> <<>>, err |-> ErrIO]
              ELSE IF srcFail /\ inf.err = ErrUnexpectedEOF
              THEN [inf EXCEPT !.err = ErrIO]
              ELSE inf
        n == Min(k, Len(st.data))
        p == SubSeq(st.data, 1, n)
        rest == SubSeq(st.data, n + 1, Len(st.data))
        ferr == IF rest = <<>> THEN st.err ELSE NoErr
        digest == rr.digest \o p
        size == rr.size + n
        r1 == [rr EXCEPT !.pos = st.pos, !.toRead = rest, !.ferr = st.err,
                         !.digest = digest, !.size = size, !.out = rr.out \o p,
                         !.fetched = IF rr.byteReader THEN st.pos ELSE rr.fetched]
    IN  IF ferr # EOF
        THEN [r |-> [r1 EXCEPT !.err = ferr], n |-> n, p |-> p, err |-> ferr]
        ELSE LET alg == IF rr.kind = "gzip" THEN Gzip ELSE Zlib
                 t == ReadTrailer(alg, rr.src, st.pos, digest, size, rr.byteReader, srcFail)
             IN  [r |-> [r1 EXCEPT !.pos = t.pos, !.err = t.err,
                                   !.fetched = IF rr.byteReader THEN t.pos ELSE rr.fetched],
                  n |-> n, p |-> p, err |-> t.err]

(***************************************************************************)
(* Middleware.Reader: the dispatch on the algorithm.                       *)
(***************************************************************************)
\* Variant: the codec's open error dropped.
ReaderIgnoresOpenError(mm, src, byteReader, srcFail) ==
    IF mm.algorithm \in {Gzip, Zlib}
    THEN [fault |-> "",
          r |-> [NoReader EXCEPT !.kind = AlgName(mm.algorithm), !.src = src,
                                 !.byteReader = byteReader,
                                 !.fetched = IF byteReader THEN 1 ELSE Len(src),
                                 !.pos = 1]]
    ELSE [fault |-> "unsupported compression algorithm", r |-> NoReader]

\* Variant: the first blocks inflated already in the Reader call.
ReaderPrimes(mm, src, byteReader, srcFail) ==
    IF mm.algorithm \in {Gzip, Zlib}
    THEN LET c == NewReader(mm.algorithm, src, byteReader, srcFail) IN
         IF c.err # NoErr
         THEN [fault |-> "failed to create " \o AlgName(mm.algorithm) \o " reader: " \o c.err.kind,
               r |-> NoReader]
         ELSE LET st == InflateFrom(src, 1, <<>>) IN
              [fault |-> "",
               r |-> [c.r EXCEPT !.pos = st.pos, !.toRead = st.data, !.ferr = st.err,
                                 !.fetched = IF byteReader THEN st.pos ELSE Len(src)]]
    ELSE [fault |-> "unsupported compression algorithm", r |-> NoReader]

Reader(mm, src, byteReader, srcFail) ==
    IF mm.algorithm = Gzip
    THEN LET c == NewReader(Gzip, src, byteReader, srcFail) IN
         IF c.err # NoErr
         THEN [fault |-> "failed to create gzip reader: " \o c.err.kind, r |-> NoReader]
         ELSE [fault |-> "", r |-> c.r]
    ELSE IF mm.algorithm = Zlib
    THEN LET c == NewReader(Zlib, src, byteReader, srcFail) IN
         IF c.err # NoErr
         THEN [fault |-> "failed to create zlib reader: " \o c.err.kind, r |-> NoReader]
         ELSE [fault |-> "", r |-> c.r]
    ELSE [fault |-> "unsupported compression algorithm", r |-> NoReader]

(***************************************************************************)
(* The read side: gzip's reader is returned as it is, zlib's inside a      *)
(* zlibReadCloser whose Read passes the call on.                           *)
(***************************************************************************)
zlibReadCloserRead(rr, k, srcFail) == CodecRead(rr, k, srcFail)

AdapterRead(rr, k, srcFail) ==
    IF rr.kind = "gzip" THEN CodecRead(rr, k, srcFail)
    ELSE zlibReadCloserRead(rr, k, srcFail)

\* io.ReadAll over the adapter, as the tests read a stream back: Read with a
\* 512-byte buffer until an error, end-of-stream counting as none.
RECURSIVE ReadAllFrom(_, _)
ReadAllFrom(rr, acc) ==
    LET c == AdapterRead(rr, 512, FALSE) IN
    IF c.err # NoErr
    THEN [fault |-> "", out |-> acc \o c.p, err |-> IF c.err = EOF THEN NoErr ELSE c.err]
    ELSE ReadAllFrom(c.r, acc \o c.p)

Decompress(mm, src) ==
    LET o == Reader(mm, src, TRUE, FALSE) IN
    IF o.fault # "" THEN [fault |-> o.fault, out |-> <<>>, err |-> NoErr]
    ELSE ReadAllFrom(o.r, <<>>)

\* One Write of all of data, then Close, into an empty in-memory sink.
CompressOneShot(mm, data) ==
    LET a == Writer(mm, <<>>)
        b == AdapterWrite(a.w, a.sink, data, 0)
        c == AdapterClose(b.w, b.sink, 0)
    IN  c.sink

(***************************************************************************)
(* The sources a Reader call may be given, next to the sink's bytes as     *)
(* they are: a truncation (at a token boundary or inside a token), or one  *)
(* token damaged.                                                          *)
(***************************************************************************)
CorruptTok(tok) ==
    IF tok[1] = "hdr" THEN {BadTok, <<"hdr", 1 - tok[2], tok[3]>>}
    ELSE IF tok[1] = "blk" THEN {BadTok, <<"blk", tok[2], tok[3] \o <<<<0, 1>>>>>>}
    ELSE IF tok[1] = "trl" THEN {<<"trl", tok[2] \o <<0>>, tok[3]>>}
    ELSE {}

Truncations(snk) ==
    {SubSeq(snk, 1, j) : j \in 0 .. Len(snk) - 1}
    \cup {SubSeq(snk, 1, j) \o <<PartTok>> : j \in 0 .. Len(snk) - 1}

Corruptions(snk) ==
    UNION {{[snk EXCEPT ![i] = c] : c \in CorruptTok(snk[i])} : i \in 1 .. Len(snk)}

Sources(snk) == {snk} \cup Truncations(snk) \cup Corruptions(snk)

(***************************************************************************)
(* The state machine.                                                      *)
(***************************************************************************)
NoCall ==
    [op |-> "none", opts |-> <<>>, chunk |-> <<>>, k |-> 0, n |-> 0,
     err |-> NoErr, iofail |-> FALSE, src |-> <<>>]

Init ==
    /\ m = [made |-> FALSE, algorithm |-> Gzip, level |-> DefaultLevel]
    /\ w = NoWriter
    /\ sink = <<>>
    /\ r = NoReader
    /\ written = <<>>
    /\ nwrites = 0
    /\ closeCalled = FALSE
    /\ call = NoCall
    /\ fault = ""

\* io: whether the sink and the source may fail (a file, a socket) or not
\* (a bytes.Buffer, a bytes.Reader).
SinkFaults(io) == IF io THEN 0 .. 3 ELSE {0}
SourceFaults(io) == IF io THEN BOOLEAN ELSE {FALSE}

DoNew ==
    /\ ~m.made
    /\ \E algorithm \in Algorithms, opts \in SeqsUpTo(LevelArgs, MaxOpts) :
          /\ m' = New(algorithm, opts)
          /\ call' = [NoCall EXCEPT !.op = "New", !.opts = opts]
    /\ UNCHANGED <<w, sink, r, written, nwrites, closeCalled, fault>>

\* m.Writer(&sink) on a fresh, empty sink: the selector's first adapter, or
\* its next one once the one before has been closed.
DoWriter ==
    /\ m.made /\ fault = "" /\ r.kind = "none"
    /\ w.kind = "none" \/ closeCalled
    /\ LET o == Writer(m, <<>>) IN
          /\ w' = o.w
          /\ sink' = o.sink
          /\ fault' = o.fault
    /\ written' = <<>>
    /\ nwrites' = 0
    /\ closeCalled' = FALSE
    /\ call' = [NoCall EXCEPT !.op = "Writer"]
    /\ UNCHANGED <<m, r>>

\* One Write on the adapter.  The caller closes once and writes nothing after.
DoWrite(io) ==
    /\ fault = "" /\ w.kind # "none" /\ ~closeCalled /\ r.kind = "none"
    /\ \E p \in SeqsUpTo(Bytes, MaxChunk), failAt \in SinkFaults(io) :
          /\ Len(written) + Len(p) <= MaxData
          /\ LET c == AdapterWrite(w, sink, p, failAt) IN
                /\ w' = c.w
                /\ sink' = c.sink
                /\ written' = IF c.err = NoErr THEN written \o p ELSE written
                /\ call' = [NoCall EXCEPT !.op = "Write", !.chunk = p, !.n = c.n,
                                          !.err = c.err,
                                          !.iofail = (w.err = NoErr /\ c.err # NoErr)]
    /\ nwrites' = Min(nwrites + 1, 2)
    /\ UNCHANGED <<m, r, closeCalled, fault>>

DoClose(io) ==
    /\ fault = "" /\ w.kind # "none" /\ ~closeCalled /\ r.kind = "none"
    /\ \E failAt \in SinkFaults(io) :
          LET c == AdapterClose(w, sink, failAt) IN
             /\ w' = c.w
             /\ sink' = c.sink
             /\ call' = [NoCall EXCEPT !.op = "Close", !.err = c.err,
                                       !.iofail = (w.err = NoErr /\ c.err # NoErr)]
    /\ closeCalled' = TRUE
    /\ UNCHANGED <<m, r, written, nwrites, fault>>

\* m.Reader(source): the source holds a copy of the sink's bytes, as they are
\* or damaged, so what the writer does afterwards no longer matters to it.  It
\* is an io.ByteReader (a bytes.Reader, as in the tests) or a plain io.Reader.
\* The selector's first reader, or its next one once the one before has
\* reached end-of-stream.
DoReader(io) ==
    /\ m.made /\ fault = ""
    /\ r.kind = "none" \/ r.err = EOF
    /\ \E src \in Sources(sink), byteReader \in BOOLEAN, srcFail \in SourceFaults(io) :
          LET o == Reader(m, src, byteReader, srcFail) IN
             /\ r' = o.r
             /\ fault' = o.fault
             /\ call' = [NoCall EXCEPT !.op = "Reader", !.src = src, !.iofail = srcFail]
    /\ UNCHANGED <<m, w, sink, written, nwrites, closeCalled>>

DoRead(io) ==
    /\ fault = "" /\ r.kind # "none"
    /\ \E k \in 1 .. MaxRead, srcFail \in SourceFaults(io) :
          LET c == AdapterRead(r, k, srcFail) IN
             /\ r' = c.r
             /\ call' = [NoCall EXCEPT !.op = "Read", !.k = k, !.n = c.n, !.err = c.err,
                                       !.iofail = (r.err = NoErr /\ c.err = ErrIO)]
    /\ UNCHANGED <<m, w, sink, written, nwrites, closeCalled, fault>>

Next ==
    \/ DoNew
    \/ DoWriter
    \/ DoWrite(FALSE)
    \/ DoClose(FALSE)
    \/ DoReader(FALSE)
    \/ DoRead(FALSE)

NextIO ==
    \/ DoNew
    \/ DoWriter
    \/ DoWrite(TRUE)
    \/ DoClose(TRUE)
    \/ DoReader(TRUE)
    \/ DoRead(TRUE)

\* In-memory sink and source, which never fail.
Spec == Init /\ [][Next]_vars

\* A sink and a source that may fail on any write or read.
SpecIO == Init /\ [][NextIO]_vars

(***************************************************************************)
(* Properties.                                                             *)
(***************************************************************************)
Supported == {Gzip, Zlib}

\* The stream carries its end: a final block or a trailer.
Finalized(snk) ==
    \E i \in DOMAIN snk : snk[i][1] = "trl" \/ (snk[i][1] = "blk" /\ snk[i][2])

\* The reader's source is the sink of a writer that was closed without error.
Intact == closeCalled /\ w.err = NoErr /\ r.src = sink

\* The codec cannot accept the first bytes of src as the header of alg.
HeaderRejected(alg, src) == src = <<>> \/ ~IsHeader(src[1], alg)

\* C1: Round trip.  For Gzip and Zlib at every level, after the written bytes
\* were closed into the sink, a Reader of the same selector over the sink's
\* bytes opens without panic, every Read returns the next bytes of what was
\* written (at least one, or end-of-stream), and reading ends with
\* end-of-stream exactly when all of it, and nothing else, has been returned.
RoundTrip ==
    /\ (closeCalled /\ call.op = "Reader" /\ call.src = sink) => fault = ""
    /\ (r.kind # "none" /\ Intact) =>
          /\ IsPrefix(r.out, written)
          /\ (call.op = "Read" /\ call.err = NoErr) => call.n >= 1
          /\ r.err # NoErr => (r.err = EOF /\ r.out = written)

RoundTripWitness ==
    /\ r.kind # "none" /\ Intact /\ m.level = 9
    /\ r.err = EOF /\ r.out = written /\ Len(written) = MaxData

\* C2: Level invariant.  Once New has returned the selector, its level is in
\* [1,9] in every state, whatever options were given and whatever Writer and
\* Reader calls followed.
LevelInvariant == m.made => m.level \in MinLevel .. MaxLevel

LevelInvariantWitness ==
    m.made /\ call.op \in {"Writer", "Reader"} /\ m.level = MaxLevel

\* C3: Level clamping.  New returns a selector without panic whose level is
\* the argument of the last option with an argument in [1,9], and 6 when no
\* option has one.
ExpectedLevel(opts) ==
    LET valid == {i \in DOMAIN opts : opts[i] >= 1 /\ opts[i] <= 9} IN
    IF valid = {} THEN 6
    ELSE opts[CHOOSE i \in valid : \A j \in valid : j <= i]

LevelClamping ==
    call.op = "New" => (m.made /\ fault = "" /\ m.level = ExpectedLevel(call.opts))

LevelClampingWitness ==
    /\ call.op = "New" /\ Len(call.opts) = 2
    /\ call.opts[1] = 3 /\ call.opts[2] = 15 /\ m.level = 3

\* C4: Unsupported algorithm.  New accepts an algorithm other than Gzip and
\* Zlib without fault; Writer and Reader on such a selector panic with
\* "unsupported compression algorithm" and return no adapter.
UnsupportedAlgorithm ==
    (m.made /\ m.algorithm \notin Supported) =>
        \/ call.op = "New" /\ fault = ""
        \/ /\ call.op \in {"Writer", "Reader"}
           /\ fault = "unsupported compression algorithm"
           /\ w.kind = "none" /\ r.kind = "none" /\ sink = <<>>

UnsupportedAlgorithmWitness ==
    /\ m.algorithm = 999 /\ call.op = "Writer"
    /\ fault = "unsupported compression algorithm"

\* C5: Streaming equivalence.  Every Write reports the length of its chunk,
\* and after Close the sink holds the same bytes as one Write of all the
\* data followed by Close would have left, which decompress to the data.
StreamingEquivalence ==
    /\ call.op = "Write" => (call.err = NoErr /\ call.n = Len(call.chunk))
    /\ closeCalled =>
          /\ sink = CompressOneShot(m, written)
          /\ Decompress(m, CompressOneShot(m, written))
                = [fault |-> "", out |-> written, err |-> NoErr]

StreamingEquivalenceWitness ==
    /\ closeCalled /\ call.op = "Close" /\ nwrites = 2
    /\ Len(written) > MaxChunk
    /\ sink = CompressOneShot(m, written)

\* C6: Finalize only on close.  From the Writer call until Close, whatever
\* was written, the sink holds no final block and no trailer and does not
\* decompress to end-of-stream; after the one Close it ends with the only
\* trailer and decompresses, without error, to what was written.
FinalizeOnlyOnClose ==
    /\ (w.kind # "none" /\ ~closeCalled) =>
          /\ ~Finalized(sink)
          /\ LET d == Decompress(m, sink) IN d.fault # "" \/ d.err # NoErr
    /\ closeCalled =>
          /\ Cardinality({i \in DOMAIN sink : sink[i][1] = "trl"}) = 1
          /\ sink[Len(sink)][1] = "trl"
          /\ Decompress(m, sink) = [fault |-> "", out |-> written, err |-> NoErr]

FinalizeOnlyOnCloseWitness ==
    /\ w.kind # "none" /\ ~closeCalled /\ call.op = "Write"
    /\ nwrites = 2 /\ Len(sink) >= 2 /\ ~Finalized(sink)

\* C7, as claimed: every failure of the sink or source during Write, Close or
\* Read comes back as an error value annotated with the phase and the
\* algorithm.
WrapInfo(msg) ==
    IF msg = "failed to close gzip writer" THEN [phase |-> "Close", alg |-> "gzip"]
    ELSE IF msg = "failed to close zlib writer" THEN [phase |-> "Close", alg |-> "zlib"]
    ELSE [phase |-> "", alg |-> ""]

CalledOn == IF call.op = "Read" THEN r.kind ELSE w.kind

EveryErrorAnnotated ==
    (call.iofail /\ call.op \in {"Write", "Close", "Read"}) =>
        /\ fault = ""
        /\ call.err # NoErr
        /\ WrapInfo(call.err.wrap) = [phase |-> call.op, alg |-> CalledOn]

\* C7, amended: every such failure, and every corruption met after a valid
\* header, comes back as an error value and never as a panic; an error
\* returned by the write side's Close carries "failed to close gzip writer"
\* or "failed to close zlib writer", and an error returned by Write or Read
\* is the error of the codec, sink or source unchanged, with no annotation.
ErrorPropagation ==
    /\ call.op \in {"Write", "Close", "Read"} => fault = ""
    /\ (call.iofail /\ call.op \in {"Write", "Close", "Read"}) =>
          (call.err # NoErr /\ call.err.kind = ErrIO.kind)
    /\ (call.op = "Close" /\ call.err # NoErr) =>
          WrapInfo(call.err.wrap) = [phase |-> "Close", alg |-> w.kind]
    /\ call.op \in {"Write", "Read"} => call.err.wrap = ""
    /\ (call.op = "Read" /\ ~Intact /\ r.err # NoErr) => (call.err = r.err /\ r.err # EOF)

ErrorPropagationWitness ==
    /\ call.op = "Close" /\ call.iofail /\ w.kind = "zlib"
    /\ call.err = Wrap(ErrIO, "failed to close zlib writer")

\* C8, as claimed: for Gzip and Zlib, Reader panics exactly when the codec
\* rejects the format header of the source.
PanicsOnlyOnRejectedHeader ==
    (call.op = "Reader" /\ m.algorithm \in Supported) =>
        (fault # "" <=> HeaderRejected(m.algorithm, call.src))

\* C8, amended: for Gzip and Zlib, Reader panics (and returns no adapter)
\* exactly when the codec's open fails: the header is rejected (an empty or
\* header-truncated source included) or the source fails while the header is
\* read.  Otherwise Reader returns an adapter, and a corrupt or truncated
\* stream then ends in an error other than end-of-stream returned by Read,
\* never in a panic.
ReadSideTiers ==
    /\ (call.op = "Reader" /\ m.algorithm \in Supported) =>
          /\ fault # "" <=> (HeaderRejected(m.algorithm, call.src) \/ call.iofail)
          /\ r.kind = (IF fault = "" THEN AlgName(m.algorithm) ELSE "none")
    /\ call.op = "Read" => fault = ""
    /\ (r.kind # "none" /\ ~Intact /\ r.err # NoErr) => r.err # EOF

ReadSideTiersWitness ==
    /\ call.op = "Read" /\ ~Intact /\ fault = ""
    /\ r.err = ErrChecksum(Gzip) /\ Len(r.out) >= 1

WriterNeverFaults ==
    (call.op = "Writer" /\ m.algorithm \in Supported) =>
        /\ fault = ""
        /\ w.kind = AlgName(m.algorithm)
        /\ w.level = m.level /\ w.level \in CodecLevels
        /\ sink = <<>>

WriterNeverFaultsWitness ==
    /\ call.op = "Writer" /\ m.algorithm = Zlib /\ m.level = MaxLevel
    /\ w.kind = "zlib" /\ fault = ""

====
